---- MODULE Spec2Model ----
(***************************************************************************)
(* A model of the NationBuilder connector of parsons                       *)
(* (src/parsons/nation_builder/nation_builder.py).                         *)
(*                                                                         *)
(* Python values are represented as follows.                               *)
(*   str    a sequence of one-character strings, <<"p", "?", "n">>         *)
(*   list   a sequence                                                     *)
(*   tuple  a sequence                                                     *)
(*   dict   a sequence of <<key, value>> pairs with distinct keys, in      *)
(*          insertion order (Python dicts keep insertion order); a JSON    *)
(*          object with known keys is a record, a key being present when   *)
(*          it is in the record's DOMAIN                                   *)
(*   None   the record None                                                *)
(* A value whose Python type the code tests, or that may be None, carries  *)
(* its type: Str(s), Num(n), Bool(b), Dict(d), List(l), the value in .v.   *)
(* A call either returns a value or raises: Return(v) / Raise(e).          *)
(***************************************************************************)
EXTENDS Integers, Sequences, FiniteSets, TLC

VARIABLES
    pc,        \* position of the client: "idle", "get_all", "sideload", "returned", "raised"
    call,      \* the arguments of the operation in progress
    ret,       \* what the operation returned or raised
    server,    \* what the remote API serves
    requests,  \* every call made on the transport (self.client), in order
    resp,      \* _get_all: the response dictionary held by the loop
    data,      \* _get_all: the accumulated records
    limit,     \* _get_all: its limit argument
    frames     \* show_resource: the state of the sideloading comprehension

vars == <<pc, call, ret, server, requests, resp, data, limit, frames>>

None == [type |-> "None"]

Str(s) == [type |-> "str", v |-> s]

Num(n) == [type |-> "int", v |-> n]

Bool(b) == [type |-> "bool", v |-> b]

Dict(d) == [type |-> "dict", v |-> d]

List(l) == [type |-> "list", v |-> l]

Return(v) == [raised |-> FALSE, value |-> v]

Raise(e) == [raised |-> TRUE, error |-> e]

NoCall == [op |-> "none"]

NoFrames == [active |-> FALSE]

EmptyRec == [x \in {} |-> TRUE]

\* ------------------------------------------------------------------ str

\* s.startswith(prefix)
StartsWith(s, prefix) ==
    /\ Len(s) >= Len(prefix)
    /\ SubSeq(s, 1, Len(prefix)) = prefix

\* s.find(c) for a one-character c, counted from 1; 0 when c is not in s
Find(s, c) ==
    IF \E i \in 1..Len(s) : s[i] = c
    THEN CHOOSE i \in 1..Len(s) : s[i] = c /\ \A j \in 1..(i - 1) : s[j] # c
    ELSE 0

\* s.rfind(c), counted from 1; 0 when c is not in s
RFind(s, c) ==
    IF \E i \in 1..Len(s) : s[i] = c
    THEN CHOOSE i \in 1..Len(s) : s[i] = c /\ \A j \in (i + 1)..Len(s) : s[j] # c
    ELSE 0

\* (s[:i-1], s[i+1:]) for a position i of s; (s, "") for i = 0
CutAt(s, i) ==
    IF i = 0 THEN <<s, <<>>>>
    ELSE <<SubSeq(s, 1, i - 1), SubSeq(s, i + 1, Len(s))>>

\* s.split(sep): the pieces of s between the occurrences of the character sep
RECURSIVE split(_, _)
split(s, sep) ==
    IF Find(s, sep) = 0 THEN <<s>>
    ELSE <<CutAt(s, Find(s, sep))[1]>> \o split(CutAt(s, Find(s, sep))[2], sep)

\* s.split(sep, maxsplit=1): s cut at the first sep only
split1(s, sep) == IF Find(s, sep) = 0 THEN <<s>> ELSE CutAt(s, Find(s, sep))

\* ----------------------------------------------------------------- dict

EmptyDict == <<>>

Keys(d) == {d[i][1] : i \in 1..Len(d)}

\* k in d
HasKey(d, k) == k \in Keys(d)

\* d[k]
Get(d, k) == d[CHOOSE i \in 1..Len(d) : d[i][1] = k][2]

\* d[k] = v: an existing key keeps its place, a new key goes last
DictSet(d, k, v) ==
    IF HasKey(d, k)
    THEN [i \in 1..Len(d) |-> IF d[i][1] = k THEN <<k, v>> ELSE d[i]]
    ELSE Append(d, <<k, v>>)

\* a merge in which the left operand wins on a shared key: the flattening
\* property must tell it from update
RECURSIVE update_KeepFirst(_, _)
update_KeepFirst(d, other) ==
    IF other = <<>> THEN d
    ELSE update_KeepFirst(IF HasKey(d, other[1][1]) THEN d
                          ELSE DictSet(d, other[1][1], other[1][2]), Tail(other))

\* d.update(other), d | other
RECURSIVE update(_, _)
update(d, other) ==
    IF other = <<>> THEN d
    ELSE update(DictSet(d, other[1][1], other[1][2]), Tail(other))

\* dict(pairs), every element of pairs having length 2
dict(pairs) == update(EmptyDict, pairs)

\* list(d.items())
items(d) == d

\* not x, for x that is None, a str, a dict, a list or a Table (a Table with no
\* rows is false)
Falsy(x) == x = None \/ x.v = <<>>

\* isinstance(value, dict)
IsDict(value) == value.type = "dict"

\* ------------------------------------------------------ urllib.parse

Alpha == {"a", "h", "i", "n", "p", "q", "s", "t", "v", "x"}

SchemeChars == Alpha \cup {"0", "1", "2", "3", "4", "5", "6", "7", "8", "9", "+", "-", "."}

\* urlsplit: url[:colon] is a scheme when it starts with a letter and holds
\* scheme characters only
HasScheme(url, colon) ==
    /\ colon > 1
    /\ url[1] \in Alpha
    /\ \A j \in 1..(colon - 1) : url[j] \in SchemeChars

\* urlsplit: (scheme, rest)
SplitScheme(url, colon) ==
    IF HasScheme(url, colon) THEN CutAt(url, colon) ELSE <<<<>>, url>>

\* the first place of s holding a character of cs, Len(s) + 1 when there is none
FindAny(s, cs) ==
    IF \E i \in 1..Len(s) : s[i] \in cs
    THEN CHOOSE i \in 1..Len(s) : s[i] \in cs /\ \A j \in 1..(i - 1) : s[j] \notin cs
    ELSE Len(s) + 1

\* urllib.parse._splitnetloc(url, 2): (netloc, rest), the netloc ending before the
\* first of '/', '?', '#'
SplitNetlocAt(s, i) == <<SubSeq(s, 1, i - 1), SubSeq(s, i, Len(s))>>

SplitNetloc(u) ==
    IF StartsWith(u, <<"/", "/">>)
    THEN SplitNetlocAt(SubSeq(u, 3, Len(u)), FindAny(SubSeq(u, 3, Len(u)), {"/", "?", "#"}))
    ELSE <<<<>>, u>>

\* urllib.parse._splitparams: the ';' parameters of the last path segment
SplitParamsAt(url, slash, k) ==
    IF k = 0 THEN <<url, <<>>>> ELSE CutAt(url, slash + k)

splitparams(url) ==
    SplitParamsAt(url, RFind(url, "/"),
                  Find(SubSeq(url, RFind(url, "/") + 1, Len(url)), ";"))

UrlQuery(scheme, netloc, fragment, qu) ==
    [scheme |-> scheme, netloc |-> netloc, path |-> splitparams(qu[1])[1],
     params |-> splitparams(qu[1])[2], query |-> qu[2], fragment |-> fragment]

UrlFragment(scheme, netloc, fr) ==
    UrlQuery(scheme, netloc, fr[2], CutAt(fr[1], Find(fr[1], "?")))

UrlNetloc(scheme, net) ==
    UrlFragment(scheme, net[1], CutAt(net[2], Find(net[2], "#")))

UrlScheme(sch) == UrlNetloc(sch[1], SplitNetloc(sch[2]))

\* urllib.parse.urlparse(url) for a str url: scheme, netloc, path, params, query
\* and fragment, split off in the library's order
urlparse(url) == UrlScheme(SplitScheme(url, Find(url, ":")))

\* --------------------------------------------------- NationBuilderV2

ApiPrefix == <<"/", "a", "p", "i", "/", "v", "2", "/">>

\* lines 320-321: url[len("/api/v2/"):] when url starts with "/api/v2/"
StripPrefix(url) ==
    IF StartsWith(url, ApiPrefix) THEN SubSeq(url, Len(ApiPrefix) + 1, Len(url)) ELSE url

\* p.split(sep="=", maxsplit=1) for p in query.split(sep="&")
SplitEach(ps) == [i \in 1..Len(ps) |-> split1(ps[i], "=")]

SplitPairs(query) == SplitEach(split(query, "&"))

\* line 327: dict(...) raises ValueError on an element that is not a pair
DictOf(path, pairs) ==
    IF \E i \in 1..Len(pairs) : Len(pairs[i]) # 2
    THEN Raise("ValueError")
    ELSE Return(<<path, dict(pairs)>>)

\* lines 323-328
UrlparseResult(parsed_url, params_as_dict) ==
    IF parsed_url.query = <<>>
    THEN Return(<<parsed_url.path, IF params_as_dict THEN EmptyDict ELSE <<>>>>)
    ELSE IF params_as_dict
    THEN DictOf(parsed_url.path, SplitPairs(parsed_url.query))
    ELSE Return(<<parsed_url.path, SplitPairs(parsed_url.query)>>)

\* NationBuilderV2._urlparse(url, params_as_dict): (path, params), or the error
\* Python raises (AttributeError for url = None, which has no startswith)
_urlparse(url, params_as_dict) ==
    IF url = None THEN Raise("AttributeError")
    ELSE UrlparseResult(urlparse(StripPrefix(url.v)), params_as_dict)

\* parsons.Table(rows)
Table(rows) == [type |-> "Table", v |-> rows]

\* NationBuilderV2._to_table: each record flattened to {"id", "type"} | attributes
\* (the right operand of | wins on a shared key)
_to_table(records) ==
    Table([i \in 1..Len(records) |->
        update(<<<<"id", records[i].id>>, <<"type", records[i].type>>>>,
               IF "attributes" \in DOMAIN records[i] THEN records[i].attributes ELSE EmptyDict)])

\* f"{param_name}[{key}]"
Bracket(name, key) == name \o <<"[">> \o key \o <<"]">>

\* an encoding of a nested dict that leaves the operator out of the name: the
\* encoder property must tell it from Nested
Nested_WithoutOperator(param_name, key, value) ==
    [j \in 1..Len(value) |-> <<Bracket(param_name, key), value[j][2]>>]

\* lines 294-296: one pair per operator of a nested dict
Nested(param_name, key, value) ==
    [j \in 1..Len(value) |-> <<Bracket(Bracket(param_name, key), value[j][1]), value[j][2]>>]

\* NationBuilderV2._param_builder(param_name, param_dict), lines 292-298: the loop
\* over param_dict.items(), params being the list built so far
RECURSIVE param_loop(_, _, _)
param_loop(param_name, rest, params) ==
    IF rest = <<>> THEN params
    ELSE param_loop(param_name, Tail(rest),
            IF IsDict(rest[1][2])
            THEN params \o Nested(param_name, rest[1][1], rest[1][2].v)
            ELSE Append(params, <<Bracket(param_name, rest[1][1]), rest[1][2]>>))

\* NationBuilderV2._param_builder(param_name, param_dict): param_dict is None or
\* Dict(d), the values of d carrying their types
_param_builder(param_name, param_dict) ==
    IF Falsy(param_dict) THEN <<>>
    ELSE param_loop(param_name, param_dict.v, <<>>)

PAGE_SIZE == <<"p", "a", "g", "e", "[", "s", "i", "z", "e", "]">>

STATS_TOTAL == <<"s", "t", "a", "t", "s", "[", "t", "o", "t", "a", "l", "]">>

COUNT == <<"c", "o", "u", "n", "t">>

FILTER == <<"f", "i", "l", "t", "e", "r">>

Min(a, b) == IF a <= b THEN a ELSE b

Max(a, b) == IF a >= b THEN a ELSE b

\* line 406: min(100, max(1, page_size))
ClampPageSize(page_size) == Min(100, Max(1, page_size))

\* lines 406-409, for a dict d: page[size] set, stats[total] set when count, then
\* list(params.items())
DictParams(d, page_size, count) ==
    items(IF count
          THEN DictSet(DictSet(d, PAGE_SIZE, Num(ClampPageSize(page_size))),
                       STATS_TOTAL, Str(COUNT))
          ELSE DictSet(d, PAGE_SIZE, Num(ClampPageSize(page_size))))

\* lines 403-409: params is None, Dict(d) or List(l), the values given by a caller
\* carrying their types (the values parsed from a link are bare strings)
BaseParams(params, page_size, count) ==
    IF Falsy(params) THEN DictParams(EmptyDict, page_size, count)
    ELSE IF IsDict(params) THEN DictParams(params.v, page_size, count)
    ELSE params.v

\* list_resource, lines 403-412: the params handed to the transport; filters is
\* None or Dict(d)
ListParams(params, page_size, count, filters) ==
    IF Falsy(filters) THEN BaseParams(params, page_size, count)
    ELSE BaseParams(params, page_size, count) \o _param_builder(FILTER, filters)

\* ------------------------------------------------------------ transport
\* self.client (parsons APIConnector over requests) and the API behind it.

Digit == <<"0", "1", "2", "3", "4", "5", "6", "7", "8", "9">>

\* str(n) for an int n >= 0
RECURSIVE str(_)
str(n) == IF n < 10 THEN <<Digit[n + 1]>> ELSE str(n \div 10) \o <<Digit[(n % 10) + 1]>>

IsDigit(c) == \E d \in 1..10 : Digit[d] = c

DigitValue(c) == (CHOOSE d \in 1..10 : Digit[d] = c) - 1

RECURSIVE DecimalValue(_)
DecimalValue(s) ==
    IF s = <<>> THEN 0
    ELSE 10 * DecimalValue(SubSeq(s, 1, Len(s) - 1)) + DigitValue(s[Len(s)])

\* a coercion that takes a str that is no numeral for 0 instead of raising: the id
\* property must tell it from int
int_Unchecked(x) ==
    IF x.type = "int" THEN Return(x.v)
    ELSE IF x.v # <<>> /\ \A i \in 1..Len(x.v) : IsDigit(x.v[i])
    THEN Return(DecimalValue(x.v))
    ELSE Return(0)

\* int(x) for an int or a str x: the int, or ValueError for a str that is not a
\* decimal numeral
int(x) ==
    IF x.type = "int" THEN Return(x.v)
    ELSE IF x.v # <<>> /\ \A i \in 1..Len(x.v) : IsDigit(x.v[i])
    THEN Return(DecimalValue(x.v))
    ELSE Raise("ValueError")

\* the list endpoint the pages are served from
PEOPLE == <<"p">>

PAGE_NUMBER == <<"n">>

\* the link the server writes for page j of the list
LinkTo(j) == Str(ApiPrefix \o PEOPLE \o <<"?">> \o PAGE_NUMBER \o <<"=">> \o str(j))

\* the same link with a corrupted pair (no '=') after it
BrokenLinkTo(j) == Str(LinkTo(j).v \o <<"&", "x">>)

\* the "links" object of page i by its kind
PageLinks(kind, i) ==
    CASE kind = "nonext" -> EmptyRec
      [] kind = "null"   -> [next |-> None]
      [] kind = "next"   -> [next |-> LinkTo(i + 1)]
      [] kind = "broken" -> [next |-> BrokenLinkTo(i + 1)]
      [] kind = "back"   -> [next |-> LinkTo(1)]

Record(i, k) == [id |-> 10 * i + k, type |-> "people"]

PageData(i, size) == [k \in 1..size |-> Record(i, k)]

\* page i: {"data": [...]} with or without "links"
Page(i, size, kind) ==
    IF kind = "nolinks" THEN [data |-> PageData(i, size)]
    ELSE [data |-> PageData(i, size), links |-> PageLinks(kind, i)]

\* params is None, Dict(d) or List(l). requests encodes each element as a
\* (key, value) pair and raises ValueError on an element that is not one, before
\* anything is sent
Encodable(params) == params = None \/ \A i \in 1..Len(params.v) : Len(params.v[i]) = 2

\* the page of the list a request asks for: page[number], 1 by default
PageAsked(params) ==
    IF params # None /\ HasKey(params.v, PAGE_NUMBER)
    THEN DecimalValue(Get(params.v, PAGE_NUMBER))
    ELSE 1

\* what the API answers to GET url?params: the JSON body, or an error status
Route(url, params) ==
    IF url = PEOPLE
    THEN IF PageAsked(params) \in 1..Len(server.pages)
         THEN Return(server.pages[PageAsked(params)])
         ELSE Raise("UpstreamError")
    ELSE IF url \in DOMAIN server.objects THEN Return(server.objects[url])
    ELSE Raise("UpstreamError")

\* self.client.get_request(url, params): the parsed JSON body, or an error (any
\* request may fail upstream)
get_request(url, params) ==
    IF ~Encodable(params) THEN {Raise("ValueError")}
    ELSE {Route(url, params), Raise("UpstreamError")}

\* self.client.request(url, req_type, params=params): the Response itself, of any
\* status
Response(answer) ==
    IF answer.raised THEN [status_code |-> 404, json |-> None]
    ELSE [status_code |-> 200, json |-> answer.value]

request(url, params) ==
    IF ~Encodable(params) THEN {Raise("ValueError")}
    ELSE {Return(Response(Route(url, params))), Return([status_code |-> 500, json |-> None])}

\* one call made on the transport: the method of the connector that made it, what
\* it asked, and whether the transport answered (ok) or raised
Request(by, method, url, params, json, out) ==
    [by |-> by, method |-> method, url |-> url, params |-> params, json |-> json,
     ok |-> ~out.raised]

\* ------------------------------------------------------- list_resource

\* the place of the sideloading comprehension after the call for (i, j) is done:
\* the inner loop goes on, and at its end the outer loop does
Advance(f) ==
    IF f.j < Len(f.relationships) THEN [f EXCEPT !.j = f.j + 1]
    ELSE [f EXCEPT !.i = f.i + 1, !.j = 1]

\* show_resource, line 460: sideloaded_resources[r] = <what sideload_rescource returned>
Attach(f, value) ==
    Advance([f EXCEPT !.sideloaded_resources =
                DictSet(f.sideloaded_resources, f.relationships[f.j][1], value)])

\* how a call ends: an exception goes up through every caller, a value goes to the
\* caller (the sideloading comprehension when it made the list call)
Finish(outcome) ==
    IF outcome.raised
    THEN pc' = "raised" /\ ret' = outcome /\ frames' = frames
    ELSE IF frames.active
    THEN pc' = "sideload" /\ ret' = ret /\ frames' = Attach(frames, outcome.value)
    ELSE pc' = "returned" /\ ret' = outcome /\ frames' = frames

\* a loop test that is off by one (fetches again when exactly limit records are
\* held): the limit property must tell it from KeepGoing
KeepGoing_Inclusive(n, lim) == lim <= 0 \/ n <= lim

\* an accumulation that keeps only the newest page: the all pages property must
\* tell it from Extend
Extend_Overwrite(acc, page) == page.data

\* a loop test with a cap of its own on the records of an unlimited call: the
\* termination property must tell it from KeepGoing
KeepGoing_Capped(n, lim) == (lim <= 0 /\ n < 3) \/ n < lim

\* line 357: limit <= 0 or len(data) < limit
KeepGoing(n, lim) == lim <= 0 \/ n < lim

\* line 361: data += resp["data"]
Extend(acc, page) == acc \o page.data

\* line 340: "links" in resp and "next" in resp["links"]
HasNext(r) == "links" \in DOMAIN r /\ "next" \in DOMAIN r.links

\* lines 414-421: the request of list_resource and what becomes of the answer
ListRequest(args, url, params) ==
    \E out \in IF args.raw_resp THEN request(url, params) ELSE get_request(url, params) :
        /\ requests' = Append(requests,
                              Request("list_resource", "GET", url, params, None, out))
        /\ IF out.raised \/ args.raw_resp
           THEN Finish(out) /\ UNCHANGED <<resp, data, limit>>
           ELSE IF args.all_results
           THEN /\ pc' = "get_all"
                /\ resp' = out.value
                /\ data' = out.value.data
                /\ limit' = args.limit
                /\ UNCHANGED <<ret, frames>>
           ELSE /\ Finish(Return(_to_table(out.value.data)))
                /\ UNCHANGED <<resp, data, limit>>

\* NationBuilderV2.list_resource(...), lines 401-421, as called with args
ListResource(args) ==
    ListRequest(args,
                IF args.url = <<>> THEN args.resource ELSE args.url,
                List(ListParams(args.params, args.page_size, args.count, args.filters)))

MaxFetches == 4

\* the follow-up fetches of the list call in progress: the requests made by
\* _get_next since the request of list_resource
FollowUps ==
    Cardinality({i \in 1..Len(requests) :
                    \A j \in i..Len(requests) : requests[j].by = "_get_next"})

\* a pager that swallows a failed follow-up and returns the records it holds: the
\* failure property must tell it from GetNext
GetNext_Swallow(parsed) ==
    IF parsed.raised
    THEN Finish(Return(_to_table(data))) /\ UNCHANGED <<requests, resp, data>>
    ELSE \E out \in get_request(parsed.value[1], List(parsed.value[2])) :
            /\ requests' = Append(requests,
                  Request("_get_next", "GET", parsed.value[1], List(parsed.value[2]), None, out))
            /\ IF out.raised
               THEN Finish(Return(_to_table(data))) /\ UNCHANGED <<resp, data>>
               ELSE /\ resp' = out.value
                    /\ data' = Extend(data, out.value)
                    /\ UNCHANGED <<pc, ret, frames>>

\* a pager that appends the new page but goes on holding the old response, so
\* that the same link is followed again: the chain property must tell it from
\* GetNext
GetNext_HoldsOldPage(parsed) ==
    IF parsed.raised
    THEN Finish(parsed) /\ UNCHANGED <<requests, resp, data>>
    ELSE \E out \in get_request(parsed.value[1], List(parsed.value[2])) :
            /\ requests' = Append(requests,
                  Request("_get_next", "GET", parsed.value[1], List(parsed.value[2]), None, out))
            /\ IF out.raised
               THEN Finish(out) /\ UNCHANGED <<resp, data>>
               ELSE /\ resp' = resp
                    /\ data' = Extend(data, out.value)
                    /\ UNCHANGED <<pc, ret, frames>>

\* _get_next, lines 341-343: the request for the parsed link and its answer
GetNext(parsed) ==
    IF parsed.raised
    THEN Finish(parsed) /\ UNCHANGED <<requests, resp, data>>
    ELSE \E out \in get_request(parsed.value[1], List(parsed.value[2])) :
            /\ requests' = Append(requests,
                  Request("_get_next", "GET", parsed.value[1], List(parsed.value[2]), None, out))
            /\ IF out.raised
               THEN Finish(out) /\ UNCHANGED <<resp, data>>
               ELSE /\ resp' = out.value
                    /\ data' = Extend(data, out.value)
                    /\ UNCHANGED <<pc, ret, frames>>

\* one turn of the loop of _get_all (lines 357-362), _get_next (lines 340-343) included
get_all_step ==
    /\ pc = "get_all"
    /\ FollowUps < MaxFetches
    /\ IF KeepGoing(Len(data), limit) /\ HasNext(resp)
       THEN GetNext(_urlparse(resp.links.next, FALSE))
       ELSE Finish(Return(_to_table(data))) /\ UNCHANGED <<requests, resp, data>>
    /\ UNCHANGED <<call, server, limit>>

\* ------------------------------------------------ the paginated list

MaxPages == 3

MaxPageLen == 2

MaxLimit == 4

\* a page before the last links to the next one (the link may be corrupted); the
\* last page has no "links", no "next", a null "next", or links back to page 1
InnerKinds == {"next", "broken"}

LastKinds == {"nolinks", "nonext", "null", "back"}

ChainKinds(n) ==
    {k \in [1..n -> InnerKinds \cup LastKinds] :
        /\ k[n] \in LastKinds
        /\ \A i \in 1..(n - 1) : k[i] \in InnerKinds}

Chain(n, size, kind) == [i \in 1..n |-> Page(i, size[i], kind[i])]

Init ==
    /\ pc = "idle"
    /\ call = NoCall
    /\ ret = None
    /\ \E n \in 1..MaxPages :
       \E size \in [1..n -> 0..MaxPageLen], kind \in ChainKinds(n) :
          server = [pages |-> Chain(n, size, kind), objects |-> EmptyRec]
    /\ requests = <<>>
    /\ resp = None
    /\ data = <<>>
    /\ limit = 0
    /\ frames = NoFrames

ListArgs(params, filters, all_results, page_size, lim, raw_resp, count) ==
    [op |-> "list_resource", resource |-> PEOPLE, filters |-> filters, params |-> params,
     all_results |-> all_results, url |-> <<>>, page_size |-> page_size, limit |-> lim,
     raw_resp |-> raw_resp, count |-> count]

\* a caller lists the people, the first page or all of them
list_resource ==
    /\ pc = "idle"
    /\ \E all_results \in BOOLEAN, lim \in -1..MaxLimit :
          /\ call' = ListArgs(None, None, all_results, 100, lim, FALSE, FALSE)
          /\ ListResource(call')
    /\ UNCHANGED server

Next == list_resource \/ get_all_step

Spec == Init /\ [][Next]_vars

\* ------------------------------------------------ _urlparse on its own

MaxUrlLen == 5

UrlChars == {"p", "q", "=", "&", "?", "/"}

\* the links the parser is tried on: relative links (a path and a query, no
\* scheme, no '//' host part, no fragment), with and without the API prefix
UrlBodies(n) == {s \in [1..n -> UrlChars] : ~StartsWith(s, <<"/", "/">>)}

InitIdle ==
    /\ pc = "idle"
    /\ call = NoCall
    /\ ret = None
    /\ server = None
    /\ requests = <<>>
    /\ resp = None
    /\ data = <<>>
    /\ limit = 0
    /\ frames = NoFrames

\* one call of _urlparse
CallUrlparse ==
    /\ pc = "idle"
    /\ \E n \in 0..MaxUrlLen, params_as_dict \in BOOLEAN :
       \E body \in UrlBodies(n), prefix \in {<<>>, ApiPrefix} :
          /\ call' = [op |-> "_urlparse", url |-> prefix \o body,
                      params_as_dict |-> params_as_dict]
          /\ ret' = _urlparse(Str(call'.url), params_as_dict)
          /\ pc' = IF ret'.raised THEN "raised" ELSE "returned"
    /\ UNCHANGED <<server, requests, resp, data, limit, frames>>

NextParse == CallUrlparse

SpecParse == InitIdle /\ [][NextParse]_vars

\* ---------------------------------------------- claims about _urlparse

\* position of the first '?' of u, Len(u) + 1 when there is none
QuestionMark(u) ==
    IF \E i \in 1..Len(u) : u[i] = "?"
    THEN CHOOSE i \in 1..Len(u) : u[i] = "?" /\ \A j \in 1..(i - 1) : u[j] # "?"
    ELSE Len(u) + 1

\* the text before the first '?'
RefPath(u) == SubSeq(u, 1, QuestionMark(u) - 1)

\* the text after the first '?'
RefQuery(u) == SubSeq(u, QuestionMark(u) + 1, Len(u))

\* the places of the '&' of q, with 0 before and Len(q) + 1 after
Cuts(q) == {0, Len(q) + 1} \cup {i \in 1..Len(q) : q[i] = "&"}

\* the i-th cut in ascending order, counted from 0
NthCut(q, i) == CHOOSE c \in Cuts(q) : Cardinality({d \in Cuts(q) : d < c}) = i

\* the '&'-separated pieces of q
RefPieces(q) ==
    [i \in 1..(Cardinality(Cuts(q)) - 1) |->
        SubSeq(q, NthCut(q, i - 1) + 1, NthCut(q, i) - 1)]

NoEquals(piece) == \A k \in 1..Len(piece) : piece[k] # "="

\* a query with a pair that has no '='
MalformedQuery(q) == q # <<>> /\ \E piece \in {RefPieces(q)[i] : i \in 1..Len(RefPieces(q))} : NoEquals(piece)

\* (key, value) of a piece holding an '=': cut at the first '=', the rest kept whole
RefPair(piece) ==
    CHOOSE kv \in {<<SubSeq(piece, 1, e - 1), SubSeq(piece, e + 1, Len(piece))>> :
                      e \in {i \in 1..Len(piece) : piece[i] = "="}} :
        NoEquals(kv[1])

RefPairsOf(pieces) == [i \in 1..Len(pieces) |-> RefPair(pieces[i])]

\* the places of l where a key occurs for the first time
FirstPlaces(l) == {i \in 1..Len(l) : \A j \in 1..(i - 1) : l[j][1] # l[i][1]}

\* the value of the last pair of l with key k
LastValue(l, k) ==
    l[CHOOSE i \in 1..Len(l) : l[i][1] = k /\ \A j \in (i + 1)..Len(l) : l[j][1] # k][2]

\* the pairs as a map: one entry per key, in the order of the keys' first
\* occurrences, holding the value of the key's last occurrence
RefMapAt(l, first) ==
    [n \in 1..Cardinality(first) |->
        <<l[CHOOSE i \in first : Cardinality({j \in first : j < i}) = n - 1][1],
          LastValue(l, l[CHOOSE i \in first : Cardinality({j \in first : j < i}) = n - 1][1])>>]

RefMap(l) == RefMapAt(l, FirstPlaces(l))

RefParams(q, params_as_dict) ==
    IF params_as_dict THEN RefMap(RefPairsOf(RefPieces(q))) ELSE RefPairsOf(RefPieces(q))

\* the reference cursor parser of the specification (4.2 UrlCursor)
RefParseOf(u, params_as_dict) ==
    IF RefQuery(u) = <<>> THEN Return(<<RefPath(u), <<>>>>)
    ELSE IF MalformedQuery(RefQuery(u)) THEN Raise("MalformedCursor")
    ELSE Return(<<RefPath(u), RefParams(RefQuery(u), params_as_dict)>>)

RefParse(url, params_as_dict) == RefParseOf(StripPrefix(url), params_as_dict)

Parsed == pc # "idle" /\ call.op = "_urlparse"

\* C6: every next URL whose query string holds a pair with no '=' makes _urlparse
\* raise, in the list-of-pairs mode and in the dict mode alike
C6_MalformedPairRaises ==
    (Parsed /\ MalformedQuery(RefQuery(StripPrefix(call.url)))) => ret.raised

\* C6, the part the code keeps: in the dict mode such a link does raise
C6_DictModeRaises ==
    (Parsed /\ call.params_as_dict /\ MalformedQuery(RefQuery(StripPrefix(call.url))))
        => ret.raised

\* C7: _urlparse equals the reference cursor parser on every relative next URL:
\* it raises exactly when the reference raises, and returns the same (path, params)
C7_UrlparseIsReference ==
    Parsed =>
        \E ref \in {RefParse(call.url, call.params_as_dict)} :
            /\ ret.raised = ref.raised
            /\ ~ref.raised => ret.value = ref.value

\* C7, the part the code keeps: on the links the reference accepts, _urlparse
\* returns what the reference returns
C7_AgreesWhereReferenceAccepts ==
    Parsed =>
        \E ref \in {RefParse(call.url, call.params_as_dict)} :
            ~ref.raised => (~ret.raised /\ ret.value = ref.value)

\* a link parsed into a pair whose value holds an '='
C7_EmbeddedEqualsParsed ==
    /\ Parsed
    /\ ~ret.raised
    /\ ~call.params_as_dict
    /\ \E i \in 1..Len(ret.value[2]) :
          /\ Len(ret.value[2][i]) = 2
          /\ ~NoEquals(ret.value[2][i][2])

\* ------------------------------------------- claims about pagination

\* the data of the given pages, in order
RECURSIVE Concat(_)
Concat(pages) ==
    IF pages = <<>> THEN <<>>
    ELSE Concat(SubSeq(pages, 1, Len(pages) - 1)) \o pages[Len(pages)].data

\* the pages a client meets when it follows the links from page 1: the j-th one
\* (the last page of a chain links to nothing, or back to page 1)
Visited(k) == [j \in 1..k |-> server.pages[((j - 1) % Len(server.pages)) + 1]]

\* a list call that asked for all results and got its first page
Paging == call.op = "list_resource" /\ call.all_results /\ pc \in {"get_all", "returned"}

LastRequest == requests[Len(requests)]

\* C1: with limit <= 0 the list call returns the data of all n pages of the chain,
\* in order, after exactly n - 1 follow-up fetches
C1_UnboundedReturnsAllPages ==
    (Paging /\ pc = "returned" /\ call.limit <= 0) =>
        /\ ret.value = _to_table(Concat(server.pages))
        /\ FollowUps = Len(server.pages) - 1

\* three pages with records returned after two follow-up fetches
C1_ThreePagesReturned ==
    /\ Paging /\ pc = "returned" /\ call.limit = 0
    /\ Len(server.pages) = 3
    /\ \A i \in 1..3 : Len(server.pages[i].data) = 2
    /\ FollowUps = 2
    /\ Len(ret.value.v) = 6

Unparseable(link) == link = None \/ MalformedQuery(RefQuery(StripPrefix(link.v)))

\* C5: when a follow-up fetch fails (the transport raises, or the next link cannot
\* be parsed) the list call raises: the failed request is the last one made (no
\* retry), no Table is returned, and a returned Table never stops short of a link
\* that could not be parsed
C5_FailureRaises ==
    (call.op = "list_resource" /\ call.all_results) =>
        /\ \A i \in 1..Len(requests) :
              ~requests[i].ok => (pc = "raised" /\ ret.raised /\ i = Len(requests))
        /\ (pc = "returned" /\ HasNext(resp) /\ Unparseable(resp.links.next)) =>
              ~KeepGoing(Len(data), limit)

\* a fetch that failed after two pages had been accumulated
C5_FailedMidPagination ==
    /\ call.op = "list_resource" /\ call.all_results
    /\ pc = "raised"
    /\ FollowUps = 2
    /\ ~LastRequest.ok
    /\ Len(data) = 4

\* ------------------------------------------- the list call in all its shapes

SORT == <<"s">>

NAME == <<"n", "a">>

\* the params a caller passes: nothing, an empty or a filled mapping, an empty or
\* a filled list of pairs
ParamShapes ==
    {None, Dict(EmptyDict), List(<<>>),
     Dict(<<<<SORT, Str(NAME)>>>>), List(<<<<SORT, Str(NAME)>>>>)}

FilterShapes ==
    {None, Dict(<<<<NAME, Str(SORT)>>>>), Dict(<<<<NAME, Dict(<<<<SORT, Str(NAME)>>>>)>>>>)}

PageSizes == {-1, 0, 1, 50, 100, 101}

\* a list of two pages
InitList ==
    /\ pc = "idle"
    /\ call = NoCall
    /\ ret = None
    /\ server \in {[pages |-> <<Page(1, 1, "next"), Page(2, 1, "nolinks")>>,
                    objects |-> EmptyRec]}
    /\ requests = <<>>
    /\ resp = None
    /\ data = <<>>
    /\ limit = 0
    /\ frames = NoFrames

\* a caller lists the people with any params, filters, page size and flags
list_resource_any ==
    /\ pc = "idle"
    /\ \E params \in ParamShapes, filters \in FilterShapes, page_size \in PageSizes,
          all_results \in BOOLEAN, raw_resp \in BOOLEAN, count \in BOOLEAN :
          /\ call' = ListArgs(params, filters, all_results, page_size, 0, raw_resp, count)
          /\ ListResource(call')
    /\ UNCHANGED server

NextList == list_resource_any \/ get_all_step

SpecList == InitList /\ [][NextList]_vars

\* the request list_resource itself made
ListRequested == call.op = "list_resource" /\ requests # <<>>

SentParams == requests[1].params.v

\* C3: the request of list_resource carries page[size] = min(100, max(1, page_size))
\* whatever the shape of the params passed in
C3_PageSizeSentClamped ==
    ListRequested =>
        /\ HasKey(SentParams, PAGE_SIZE)
        /\ Get(SentParams, PAGE_SIZE) = Num(ClampPageSize(call.page_size))

\* the same for params that are None, empty, or a mapping
C3_MappingParamsClamped ==
    (ListRequested /\ (Falsy(call.params) \/ IsDict(call.params))) =>
        /\ HasKey(SentParams, PAGE_SIZE)
        /\ Get(SentParams, PAGE_SIZE) = Num(ClampPageSize(call.page_size))

\* ------------------------------------------------------------ writes

\* self.client.patch_request(url, params=params, json=payload): the parsed JSON
\* body (the API echoes the record), or an error
patch_request(url, params, json) ==
    IF ~Encodable(params) THEN {Raise("ValueError")}
    ELSE {Return(json), Raise("UpstreamError")}

SIGNUPS == <<"s", "i", "g", "n", "u", "p", "s">>

PUSH == <<"p", "u", "s", "h">>

\* an upsert that sends whatever it is given, mapping or not: the rejection
\* property must tell it from UpsertResource
UpsertResource_Unchecked(by, resource, payload, params, url) ==
    \E json \in {[data |-> [type |-> resource, attributes |-> payload]]} :
    \E target \in {IF url = <<>> THEN resource \o <<"/">> \o PUSH ELSE url} :
    \E out \in patch_request(target, params, json) :
        /\ requests' = Append(requests, Request(by, "PATCH", target, params, json, out))
        /\ Finish(out)

\* NationBuilderV2.upsert_resource(resource, payload, params, url), lines 545-549,
\* called by `by`
UpsertResource(by, resource, payload, params, url) ==
    IF ~IsDict(payload)
    THEN Finish(Raise("ValueError")) /\ UNCHANGED requests
    ELSE \E json \in {[data |-> [type |-> resource, attributes |-> payload]]} :
         \E target \in {IF url = <<>> THEN resource \o <<"/">> \o PUSH ELSE url} :
         \E out \in patch_request(target, params, json) :
            /\ requests' = Append(requests, Request(by, "PATCH", target, params, json, out))
            /\ Finish(out)

\* patch_signup, lines 936-947
required_keys ==
    <<"civicrm_id", "county_file_id", "dw_id", "external_id", "email",
      "facebook_username", "ngp_id", "salesforce_id", "twitter_login", "van_id">>

\* x in payload: a key of a dict, an element of a list
In(x, payload) ==
    IF IsDict(payload) THEN HasKey(payload.v, x)
    ELSE \E i \in 1..Len(payload.v) : payload.v[i] = x

\* line 948: any(x in payload for x in required_keys)
has_required_key(payload) == \E k \in 1..Len(required_keys) : In(required_keys[k], payload)

\* the attributes a caller passes: with or without identifying fields; not a dict
Payloads ==
    {None, List(<<>>), List(<<"email">>), Dict(EmptyDict),
     Dict(<<<<"name", Str(NAME)>>>>),
     Dict(<<<<"email", Str(NAME)>>>>),
     Dict(<<<<"name", Str(NAME)>>, <<"van_id", Num(7)>>>>),
     Dict(<<<<"external_id", Num(7)>>, <<"email", Str(NAME)>>>>)}

upsert_resource ==
    /\ pc = "idle"
    /\ \E resource \in {PEOPLE, SIGNUPS}, payload \in Payloads, params \in ParamShapes :
          /\ call' = [op |-> "upsert_resource", resource |-> resource,
                      payload |-> payload, params |-> params, url |-> <<>>]
          /\ UpsertResource("upsert_resource", resource, payload, params, <<>>)
    /\ UNCHANGED <<server, resp, data, limit>>

\* NationBuilderV2.patch_signup(payload, params), lines 935-952
patch_signup ==
    /\ pc = "idle"
    /\ \E payload \in Payloads, params \in ParamShapes :
          /\ call' = [op |-> "patch_signup", resource |-> SIGNUPS,
                      payload |-> payload, params |-> params, url |-> <<>>]
          /\ IF payload = None
             THEN Finish(Raise("TypeError")) /\ UNCHANGED requests
             ELSE IF ~has_required_key(payload)
             THEN Finish(Raise("ValueError")) /\ UNCHANGED requests
             ELSE UpsertResource("patch_signup", SIGNUPS, payload, params, <<>>)
    /\ UNCHANGED <<server, resp, data, limit>>

\* self.client.post_request(url, params=params, json=payload)
post_request(url, params, json) ==
    IF ~Encodable(params) THEN {Raise("ValueError")}
    ELSE {Return(json), Raise("UpstreamError")}

\* self.client.delete_request(url, params=params)
delete_request(url, params) ==
    IF ~Encodable(params) THEN {Raise("ValueError")}
    ELSE {Return(None), Raise("UpstreamError")}

\* the ids a caller passes: ints, and strs that are or are not numerals
Ids == {Num(1), Num(12), Str(<<"1">>), Str(<<"0", "7">>), Str(<<"x">>), Str(<<"1", "x">>),
        Str(<<>>)}

\* NationBuilderV2.post_resource(resource, params, payload, url), lines 504-509
PostResource(resource, params, payload, url) ==
    IF ~IsDict(payload)
    THEN Finish(Raise("ValueError")) /\ UNCHANGED requests
    ELSE \E json \in {[data |-> [type |-> resource, attributes |-> payload]]} :
         \E target \in {IF url = <<>> THEN resource ELSE url} :
         \E out \in post_request(target, params, json) :
            /\ requests' = Append(requests,
                                  Request("post_resource", "POST", target, params, json, out))
            /\ Finish(out)

post_resource ==
    /\ pc = "idle"
    /\ \E resource \in {PEOPLE, SIGNUPS}, payload \in Payloads, params \in ParamShapes :
          /\ call' = [op |-> "post_resource", resource |-> resource,
                      payload |-> payload, params |-> params, url |-> <<>>]
          /\ PostResource(resource, params, payload, <<>>)
    /\ UNCHANGED <<server, resp, data, limit>>

\* an update sent as an upsert, to resource/push and without the id in the body:
\* the shaping property must tell it from PatchResource
PatchResource_AsUpsert(resource, id, params, payload, url) ==
    UpsertResource("patch_resource", resource, payload, params, url)

\* NationBuilderV2.patch_resource(resource, id, params, payload, url), lines
\* 572-578, id being the outcome of int(id)
PatchResource(resource, id, params, payload, url) ==
    IF id.raised
    THEN Finish(id) /\ UNCHANGED requests
    ELSE IF ~IsDict(payload)
    THEN Finish(Raise("ValueError")) /\ UNCHANGED requests
    ELSE \E json \in {[data |-> [id |-> id.value, type |-> resource,
                                  attributes |-> payload]]} :
         \E target \in {IF url = <<>> THEN resource \o <<"/">> \o str(id.value) ELSE url} :
         \E out \in patch_request(target, params, json) :
            /\ requests' = Append(requests,
                                  Request("patch_resource", "PATCH", target, params, json, out))
            /\ Finish(out)

patch_resource ==
    /\ pc = "idle"
    /\ \E resource \in {PEOPLE, SIGNUPS}, id \in Ids, payload \in Payloads,
          params \in ParamShapes :
          /\ call' = [op |-> "patch_resource", resource |-> resource, id |-> id,
                      payload |-> payload, params |-> params, url |-> <<>>]
          /\ PatchResource(resource, int(id), params, payload, <<>>)
    /\ UNCHANGED <<server, resp, data, limit>>

\* NationBuilderV2.delete_resource(resource, id, params, url), lines 524-527, id
\* being the outcome of int(id)
DeleteResource(resource, id, params, url) ==
    IF id.raised
    THEN Finish(id) /\ UNCHANGED requests
    ELSE \E target \in {IF url = <<>> THEN resource \o <<"/">> \o str(id.value) ELSE url} :
         \E out \in delete_request(target, params) :
            /\ requests' = Append(requests,
                                  Request("delete_resource", "DELETE", target, params, None, out))
            /\ Finish(out)

delete_resource ==
    /\ pc = "idle"
    /\ \E resource \in {PEOPLE, SIGNUPS}, id \in Ids, params \in ParamShapes :
          /\ call' = [op |-> "delete_resource", resource |-> resource, id |-> id,
                      params |-> params, url |-> <<>>]
          /\ DeleteResource(resource, int(id), params, <<>>)
    /\ UNCHANGED <<server, resp, data, limit>>

NextWrite ==
    \/ upsert_resource
    \/ patch_signup
    \/ post_resource
    \/ patch_resource
    \/ delete_resource

SpecWrite == InitIdle /\ [][NextWrite]_vars

\* an upsert of attributes (a mapping) that hold none of the identifying fields
Unidentified ==
    /\ call.op \in {"upsert_resource", "patch_signup"}
    /\ IsDict(call.payload)
    /\ \A k \in 1..Len(required_keys) : ~HasKey(call.payload.v, required_keys[k])

\* C4: an upsert whose attributes hold none of the identifying fields raises
\* ValueError and makes no call on the transport, through upsert_resource as
\* through patch_signup
C4_UpsertRejectsUnidentified ==
    Unidentified => (pc = "raised" /\ ret = Raise("ValueError") /\ requests = <<>>)

\* the same through patch_signup alone
C4_PatchSignupRejectsUnidentified ==
    (Unidentified /\ call.op = "patch_signup") =>
        (pc = "raised" /\ ret = Raise("ValueError") /\ requests = <<>>)

\* --------------------------------------------------- show and sideload

\* line 457: sideload is True or r in sideload (sideload a list by then)
Selected(sideload, r) ==
    IF sideload.type = "bool" THEN sideload.v
    ELSE \E k \in 1..Len(sideload.v) : sideload.v[k] = r

\* lines 450-451: a str selector becomes a list of one name
AsList(sideload) == IF sideload.type = "str" THEN List(<<sideload.v>>) ELSE sideload

Truthy(pair) == ~Falsy(pair[2])

\* line 460: {k: v for k, v in sideloaded_resources.items() if v}
Kept(sideloaded_resources) == SelectSeq(sideloaded_resources, Truthy)

\* the list call of sideload_rescource, line 483
SideloadArgs(resource, parsed) ==
    [op |-> "list_resource", resource |-> resource, filters |-> None,
     params |-> List(parsed[2]), all_results |-> TRUE, url |-> parsed[1],
     page_size |-> 100, limit |-> 0, raw_resp |-> FALSE, count |-> FALSE]

\* sideload_rescource, lines 481-483, for a link that is there
FollowLink(resource, parsed) ==
    IF parsed.raised
    THEN Finish(parsed) /\ UNCHANGED <<requests, resp, data, limit>>
    ELSE ListResource(SideloadArgs(resource, parsed.value))

\* NationBuilderV2.sideload_rescource(resp, resource), lines 478-483, rel being
\* the pair (resource, resp["relationships"][resource])
SideloadResource(rel) ==
    IF "related" \notin DOMAIN rel[2].links
    THEN Finish(Raise("KeyError")) /\ UNCHANGED <<requests, resp, data, limit>>
    ELSE IF Falsy(rel[2].links.related)
    THEN /\ frames' = Attach(frames, None)
         /\ UNCHANGED <<pc, ret, requests, resp, data, limit>>
    ELSE FollowLink(rel[1], _urlparse(rel[2].links.related, FALSE))

\* show_resource, lines 455-461: one turn of the comprehension (its two loops run
\* over resp["relationships"], at places i and j), or its end
sideload_step ==
    /\ pc = "sideload"
    /\ IF frames.i > Len(frames.relationships)
       THEN /\ pc' = "returned"
            /\ ret' = Return([frames.resp EXCEPT
                                !.relationships = Kept(frames.sideloaded_resources)])
            /\ frames' = NoFrames
            /\ UNCHANGED <<requests, resp, data, limit>>
       ELSE IF frames.j = 1 /\ ~Selected(frames.sideload, frames.relationships[frames.i][1])
       THEN /\ frames' = [frames EXCEPT !.i = frames.i + 1]
            /\ UNCHANGED <<pc, ret, requests, resp, data, limit>>
       ELSE SideloadResource(frames.relationships[frames.j])
    /\ UNCHANGED <<call, server>>

\* show_resource, lines 449-455, with the record fetched
Shown(record, sideload) ==
    IF sideload = Bool(FALSE)
    THEN Finish(Return(record))
    ELSE /\ pc' = "sideload"
         /\ ret' = ret
         /\ frames' = [active |-> TRUE, resp |-> record, sideload |-> AsList(sideload),
                       relationships |-> record.relationships, i |-> 1, j |-> 1,
                       sideloaded_resources |-> EmptyDict]

\* NationBuilderV2.show_resource(resource, id, params, url, sideload), lines 445-449
ShowResource(args, id) ==
    IF id.raised
    THEN Finish(id) /\ UNCHANGED requests
    ELSE \E url \in {IF args.url = <<>> THEN args.resource \o <<"/">> \o str(id.value)
                     ELSE args.url} :
         \E out \in get_request(url, args.params) :
            /\ requests' = Append(requests,
                                  Request("show_resource", "GET", url, args.params, None, out))
            /\ IF out.raised THEN Finish(out) ELSE Shown(out.value.data, args.sideload)

MaxRels == 2

MaxRelated == 1

RelNames == <<<<"a">>, <<"b">>, <<"c">>>>

\* what a relationship of the shown record says of its related collection: no
\* "related" key, a null link, a link, a link with a query
RelKinds == {"absent", "null", "plain", "query"}

RelLink(name, kind) ==
    IF kind = "null" THEN None
    ELSE IF kind = "plain" THEN Str(ApiPrefix \o name)
    ELSE Str(ApiPrefix \o name \o <<"?">> \o SORT \o <<"=">> \o NAME)

RelObject(name, kind) ==
    IF kind = "absent" THEN [links |-> EmptyRec]
    ELSE [links |-> [related |-> RelLink(name, kind)]]

ShownUrl == SIGNUPS \o <<"/", "1">>

\* the record served at signups/1, with n relationships
ShownRecord(n, kind) ==
    [id |-> 1, type |-> "signups",
     relationships |-> [k \in 1..n |-> <<RelNames[k], RelObject(RelNames[k], kind[k])>>]]

\* the API of a record with n relationships, each related collection served at
\* the path of its name
ShowServer(n, kind, size) ==
    [pages |-> <<>>,
     objects |-> [u \in {ShownUrl} \cup {RelNames[k] : k \in 1..n} |->
                    IF u = ShownUrl THEN [data |-> ShownRecord(n, kind)]
                    ELSE [data |-> PageData(CHOOSE k \in 1..n : RelNames[k] = u,
                                            size[CHOOSE k \in 1..n : RelNames[k] = u])]]]

InitShow ==
    /\ pc = "idle"
    /\ call = NoCall
    /\ ret = None
    /\ \E n \in 0..MaxRels :
       \E kind \in [1..n -> RelKinds], size \in [1..n -> 0..MaxRelated] :
          server = ShowServer(n, kind, size)
    /\ requests = <<>>
    /\ resp = None
    /\ data = <<>>
    /\ limit = 0
    /\ frames = NoFrames

\* the selectors a caller passes: none, all, a name, lists of names
Selectors ==
    {Bool(FALSE), Bool(TRUE), Str(RelNames[1]), Str(RelNames[2]),
     List(<<>>), List(<<RelNames[2]>>), List(<<RelNames[1], RelNames[2]>>)}

\* a caller shows signup 1, the id an int or a str
show_resource ==
    /\ pc = "idle"
    /\ \E id \in {Num(1), Str(<<"1">>), Str(<<"x">>)}, sideload \in Selectors :
          /\ call' = [op |-> "show_resource", resource |-> SIGNUPS, id |-> id,
                      params |-> None, url |-> <<>>, sideload |-> sideload]
          /\ ShowResource(call', int(id))
    /\ UNCHANGED <<server, resp, data, limit>>

NextShow == show_resource \/ sideload_step \/ get_all_step

SpecShow == InitShow /\ [][NextShow]_vars

\* ------------------------------------------- claims about sideloading

\* a show call whose record was fetched
Showing == call.op = "show_resource" /\ requests # <<>> /\ requests[1].ok

Relationships == server.objects[ShownUrl].data.relationships

\* the names of the relationships of the record that the selector of the call names
Matching ==
    {Relationships[k][1] : k \in {x \in 1..Len(Relationships) :
        /\ call.sideload # Bool(FALSE)
        /\ Selected(AsList(call.sideload), Relationships[x][1])}}

\* those of them that carry a link to a related collection
Linked ==
    {Relationships[k][1] : k \in {x \in 1..Len(Relationships) :
        /\ "related" \in DOMAIN Relationships[x][2].links
        /\ ~Falsy(Relationships[x][2].links.related)}}

\* the relationships whose related collection was asked for
Fetched ==
    {requests[i].url : i \in {x \in 1..Len(requests) : requests[x].by = "list_resource"}}

\* the relationships attached to the record returned
Attached == {ret.value.relationships[k][1] : k \in 1..Len(ret.value.relationships)}

\* C8: the related collections fetched and attached are those of the relationships
\* the selector names, and no others: none when sideload is False (no further
\* request, the record returned as fetched)
C8_SideloadsExactlySelected ==
    Showing =>
        /\ Fetched \subseteq Matching
        /\ (pc = "returned" /\ call.sideload = Bool(FALSE)) =>
              (ret.value = server.objects[ShownUrl].data /\ Len(requests) = 1)
        /\ (pc = "returned" /\ call.sideload # Bool(FALSE)) =>
              /\ Fetched = Matching \cap Linked
              /\ Attached \subseteq Matching

\* the same without a selector: nothing is fetched and the record comes back as is
C8_NoSideloadNoFetch ==
    (Showing /\ call.sideload = Bool(FALSE)) =>
        /\ Fetched = {}
        /\ pc = "returned"
        /\ ret.value = server.objects[ShownUrl].data
        /\ Len(requests) = 1

\* the relationship the comprehension is at
Current == frames.relationships[frames.j]

\* C9: a selected relationship with a null related link, or with no "related" key,
\* is skipped: nothing is fetched for it and no error is raised
C9_UnlinkedSkipped ==
    (Showing /\ call.sideload # Bool(FALSE)) =>
        /\ Fetched \subseteq Linked
        /\ ~(/\ pc = "raised"
             /\ ret.error = "KeyError"
             /\ Current[1] \in Matching)

\* the same for a null link alone
C9_NullLinkSkipped ==
    (Showing /\ call.sideload # Bool(FALSE)) =>
        /\ Fetched \subseteq Linked
        /\ (pc = "raised" /\ ret.error = "KeyError") =>
              "related" \notin DOMAIN Current[2].links

\* ------------------------------------------------- the filter encoder

MaxKeys == 2

MaxOps == 2

FieldNames == {<<"a">>, <<"b">>, <<"c">>}

OperatorNames == {<<"g", "t">>, <<"l", "t">>, <<"e", "q">>}

\* the value an operator is given
OperatorValue(op) == IF op = <<"l", "t">> THEN Str(NAME) ELSE Num(5)

\* the sequences of up to n different names
RECURSIVE Orderings(_, _)
Orderings(names, n) ==
    IF n = 0 THEN {<<>>}
    ELSE Orderings(names, n - 1) \cup
         {Append(s, x) : s \in {t \in Orderings(names, n - 1) : Len(t) = n - 1},
                         x \in names}

Distinct(s) == \A i, j \in 1..Len(s) : i # j => s[i] # s[j]

\* the nested mappings {operator: value}, empty one included
OperatorDicts ==
    {Dict([k \in 1..Len(ops) |-> <<ops[k], OperatorValue(ops[k])>>]) :
        ops \in {s \in Orderings(OperatorNames, MaxOps) : Distinct(s)}}

FilterValues == {Num(1), Str(NAME)} \cup OperatorDicts

\* the mapping {field: value} of the given keys and values
FilterDict(keys, val) == Dict([k \in 1..Len(keys) |-> <<keys[k], val[k]>>])

\* the inputs of the encoder: no mapping, or a mapping of up to MaxKeys fields in
\* any order
ParamDicts(keys, val) ==
    IF keys = <<>> THEN {None, Dict(EmptyDict)} ELSE {FilterDict(keys, val)}

\* one call of _param_builder
CallParamBuilder ==
    /\ pc = "idle"
    /\ \E param_name \in {FILTER, SORT} :
       \E keys \in {s \in Orderings(FieldNames, MaxKeys) : Distinct(s)} :
       \E val \in [1..Len(keys) -> FilterValues] :
       \E param_dict \in ParamDicts(keys, val) :
          /\ call' = [op |-> "_param_builder", param_name |-> param_name,
                      param_dict |-> param_dict]
          /\ ret' = Return(_param_builder(param_name, param_dict))
          /\ pc' = "returned"
    /\ UNCHANGED <<server, requests, resp, data, limit, frames>>

NextParams == CallParamBuilder

SpecParams == InitIdle /\ [][NextParams]_vars

\* the reference encoder: entry k of the mapping gives as many pairs as it has
\* operators when its value is a mapping, and one pair otherwise
Width(value) == IF IsDict(value) THEN Len(value.v) ELSE 1

\* the number of pairs the entries before entry k give
RECURSIVE Before(_, _)
Before(d, k) == IF k = 1 THEN 0 ELSE Before(d, k - 1) + Width(d[k - 1][2])

\* the entry that gives pair n
EntryOf(d, n) == CHOOSE k \in 1..Len(d) : Before(d, k) < n /\ n <= Before(d, k + 1)

RefPairAt(name, entry, m) ==
    IF IsDict(entry[2])
    THEN <<name \o <<"[">> \o entry[1] \o <<"]", "[">> \o entry[2].v[m][1] \o <<"]">>,
           entry[2].v[m][2]>>
    ELSE <<name \o <<"[">> \o entry[1] \o <<"]">>, entry[2]>>

RefEncodeDict(name, d) ==
    [n \in 1..Before(d, Len(d) + 1) |->
        RefPairAt(name, d[EntryOf(d, n)], n - Before(d, EntryOf(d, n)))]

RefEncode(name, d) == IF d = None THEN <<>> ELSE RefEncodeDict(name, d.v)

Encoded == call.op = "_param_builder" /\ pc = "returned"

\* C10: _param_builder(param_name, d) is the list of the reference encoder: empty
\* for an absent or empty d, else for each key in order one pair
\* (param_name[k][op], v) per operator of a nested mapping and one pair
\* (param_name[k], value) for any other value
C10_ParamBuilderIsReference ==
    Encoded => ret.value = RefEncode(call.param_name, call.param_dict)

\* a mapping of a nested mapping with two operators and a plain value encoded
C10_NestedAndPlainEncoded ==
    /\ Encoded
    /\ call.param_dict # None
    /\ Len(call.param_dict.v) = 2
    /\ IsDict(call.param_dict.v[1][2])
    /\ Len(call.param_dict.v[1][2].v) = 2
    /\ ~IsDict(call.param_dict.v[2][2])
    /\ Len(ret.value) = 3

\* ------------------------------------------------- the field selection

\* not x, for x of any of the types a caller may pass
Not(x) ==
    CASE x.type = "None" -> TRUE
      [] x.type = "int"  -> x.v = 0
      [] x.type = "bool" -> ~x.v
      [] OTHER           -> x.v = <<>>

\* NationBuilderV2._params_formatter(p, resource, fields), lines 303-305: the dict
\* {f"{p}[{resource}]": fields}, fields being stored as it was passed
_params_formatter(p, resource, fields) ==
    IF Not(fields) THEN EmptyDict
    ELSE <<<<Bracket(p, resource), fields>>>>

FIELDS == <<"f", "i", "e", "l", "d", "s">>

MaxFields == 3

\* the lists of up to n field names
FieldLists(n) == [1..n -> FieldNames]

\* a value that is neither a str nor a sequence nor None
OtherFields ==
    {Num(0), Num(5), Bool(FALSE), Bool(TRUE), Dict(EmptyDict),
     Dict(<<<<NAME, Str(SORT)>>>>)}

TextFields == {None, Str(<<>>), Str(NAME), Str(<<"a", ",", "b">>)}

\* one call of _params_formatter
CallParamsFormatter ==
    /\ pc = "idle"
    /\ \E p \in {FIELDS, SORT}, resource \in {PEOPLE, SIGNUPS}, n \in 0..MaxFields :
       \E fields \in IF n = 0 THEN TextFields \cup OtherFields \cup {List(<<>>)}
                     ELSE {List(l) : l \in FieldLists(n)} :
          /\ call' = [op |-> "_params_formatter", p |-> p, resource |-> resource,
                      fields |-> fields]
          /\ ret' = Return(_params_formatter(p, resource, fields))
          /\ pc' = "returned"
    /\ UNCHANGED <<server, requests, resp, data, limit, frames>>

NextFields == CallParamsFormatter

SpecFields == InitIdle /\ [][NextFields]_vars

\* the names joined by ','
RECURSIVE Join(_)
Join(names) ==
    IF names = <<>> THEN <<>>
    ELSE IF Len(names) = 1 THEN names[1]
    ELSE names[1] \o <<",">> \o Join(Tail(names))

Formatted == call.op = "_params_formatter" /\ pc \in {"returned", "raised"}

\* the one entry {p[resource]: text}
OneField(text) ==
    /\ ~ret.raised
    /\ Len(ret.value) = 1
    /\ ret.value[1][1] = call.p \o <<"[">> \o call.resource \o <<"]">>
    /\ ret.value[1][2].type = "str"
    /\ ret.value[1][2].v = text

\* C11: absent or empty fields encode to {}, a string s to {p[resource]: s}, a
\* sequence of names to {p[resource]: the names joined by ','}, and a value of
\* any other type is rejected (an empty one may count as empty)
C11_FieldsEncoded ==
    Formatted =>
        CASE call.fields.type = "None" -> ret = Return(EmptyDict)
          [] call.fields.type = "str"  ->
                IF call.fields.v = <<>> THEN ret = Return(EmptyDict)
                ELSE OneField(call.fields.v)
          [] call.fields.type = "list" ->
                IF call.fields.v = <<>> THEN ret = Return(EmptyDict)
                ELSE OneField(Join(call.fields.v))
          [] OTHER -> Not(call.fields) \/ ret.raised

\* the same for absent fields and strings alone
C11_TextFieldsEncoded ==
    (Formatted /\ call.fields.type \in {"None", "str"}) =>
        IF Not(call.fields) THEN ret = Return(EmptyDict) ELSE OneField(call.fields.v)

\* a sequence of names is passed on as the sequence it was
C11_ListPassedUnjoined ==
    (Formatted /\ call.fields.type = "list" /\ call.fields.v # <<>>) =>
        /\ Len(ret.value) = 1
        /\ ret.value[1][2] = call.fields

\* ------------------------------------------------- the flattening

MaxAttrs == 2

MaxRecords == 2

AttrNames == {"id", "type", "name"}

\* the value the API gives an attribute
AttrValue(k) == IF k = "name" THEN Str(NAME) ELSE IF k = "id" THEN Str(SORT) ELSE Num(7)

\* the JSON records the API may send: with or without "attributes", the
\* attributes in any order
ApiRecord(i, with, keys) ==
    IF with
    THEN [id |-> Num(i), type |-> Str(PEOPLE),
          attributes |-> [k \in 1..Len(keys) |-> <<keys[k], AttrValue(keys[k])>>]]
    ELSE [id |-> Num(i), type |-> Str(PEOPLE)]

ApiRecords(i) ==
    {ApiRecord(i, TRUE, keys) : keys \in {s \in Orderings(AttrNames, MaxAttrs) : Distinct(s)}}
        \cup {ApiRecord(i, FALSE, <<>>)}

\* one call of _to_table
CallToTable ==
    /\ pc = "idle"
    /\ \E n \in 0..MaxRecords :
       \E records \in [1..n -> UNION {ApiRecords(i) : i \in 1..n}] :
          /\ call' = [op |-> "_to_table", data |-> records]
          /\ ret' = Return(_to_table(records))
          /\ pc' = "returned"
    /\ UNCHANGED <<server, requests, resp, data, limit, frames>>

NextTable == CallToTable

SpecTable == InitIdle /\ [][NextTable]_vars

Flattened == call.op = "_to_table" /\ pc = "returned"

\* the attributes of a record, none when it has no "attributes"
AttributesOf(r) == IF "attributes" \in DOMAIN r THEN r.attributes ELSE <<>>

\* the row is the mapping of "id", "type" and the attribute names, an attribute
\* winning over the record's own id or type
IsRowOf(row, r) ==
    /\ Keys(row) = {"id", "type"} \cup Keys(AttributesOf(r))
    /\ Len(row) = Cardinality(Keys(row))
    /\ \A k \in Keys(row) :
          Get(row, k) = IF HasKey(AttributesOf(r), k) THEN Get(AttributesOf(r), k) ELSE r[k]

\* C12: _to_table gives one row per record, the row being {id, type} merged with
\* the attributes; a record without "attributes" gives {id, type}; an attribute
\* named id or type wins over the record's own
C12_RowsAreFlattenedRecords ==
    Flattened =>
        /\ ret.value.type = "Table"
        /\ Len(ret.value.v) = Len(call.data)
        /\ \A i \in 1..Len(call.data) : IsRowOf(ret.value.v[i], call.data[i])

\* a record without attributes and a record whose attribute id replaced its id
C12_CollisionAndBareRecord ==
    /\ Flattened
    /\ Len(call.data) = 2
    /\ "attributes" \notin DOMAIN call.data[1]
    /\ Keys(ret.value.v[1]) = {"id", "type"}
    /\ HasKey(AttributesOf(call.data[2]), "id")
    /\ Get(ret.value.v[2], "id") = AttrValue("id")
    /\ Get(ret.value.v[2], "id") # call.data[2].id

\* ------------------------------------------- every call of the connector

NextCalls == NextShow \/ NextWrite

\* a record with one relationship, its related collection of one record
InitCalls ==
    /\ pc = "idle"
    /\ call = NoCall
    /\ ret = None
    /\ server \in {ShowServer(1, <<"plain">>, <<1>>)}
    /\ requests = <<>>
    /\ resp = None
    /\ data = <<>>
    /\ limit = 0
    /\ frames = NoFrames

SpecCalls == InitCalls /\ [][NextCalls]_vars

\* a call that takes an id
TakesId == call.op \in {"show_resource", "patch_resource", "delete_resource"}

MaxId == 99

\* the str is a decimal numeral of n, leading zeros allowed
Numeral(s, n) ==
    \E z \in 0..Len(s) :
        /\ \A i \in 1..z : s[i] = "0"
        /\ \/ SubSeq(s, z + 1, Len(s)) = str(n) /\ (n > 0 \/ z = 0)
           \/ z = Len(s) /\ z > 0 /\ n = 0

\* the id of the call is the integer n
Denotes(id, n) == IF id.type = "int" THEN id.v = n ELSE Numeral(id.v, n)

\* C13: show_resource, patch_resource and delete_resource ask for the path
\* resource/n, n being the integer their id denotes, and raise without any call
\* on the transport when the id denotes no integer
C13_IdCoercedBeforePath ==
    TakesId =>
        /\ (\A n \in 0..MaxId : ~Denotes(call.id, n)) =>
              (pc = "raised" /\ requests = <<>>)
        /\ requests # <<>> =>
              \E n \in 0..MaxId :
                  /\ Denotes(call.id, n)
                  /\ requests[1].url = call.resource \o <<"/">> \o str(n)

\* the id "07" sent as 7
C13_NumeralCoerced ==
    /\ call.op = "delete_resource"
    /\ call.id = Str(<<"0", "7">>)
    /\ requests # <<>>
    /\ requests[1].url = call.resource \o <<"/", "7">>

\* ------------------------------------------- claims about the writes

Wrote ==
    call.op \in {"post_resource", "patch_resource", "upsert_resource", "delete_resource"}

\* the arguments of the write are well formed: attributes that are a mapping, an
\* id that denotes an integer
WellFormed ==
    /\ call.op # "delete_resource" => call.payload.type = "dict"
    /\ call.op \in {"patch_resource", "delete_resource"} =>
          \E n \in 0..MaxId : Denotes(call.id, n)

\* the body {data: {type, attributes}} of a create or an upsert
PlainBody == [data |-> [type |-> call.resource, attributes |-> call.payload]]

\* the request the write is to make
Shaped(req) ==
    CASE call.op = "post_resource" ->
            /\ req.method = "POST"
            /\ req.url = call.resource
            /\ req.json = PlainBody
      [] call.op = "upsert_resource" ->
            /\ req.method = "PATCH"
            /\ req.url = call.resource \o <<"/", "p", "u", "s", "h">>
            /\ req.json = PlainBody
      [] call.op = "patch_resource" ->
            /\ req.method = "PATCH"
            /\ \E n \in 0..MaxId :
                  /\ Denotes(call.id, n)
                  /\ req.url = call.resource \o <<"/">> \o str(n)
                  /\ req.json = [data |-> [id |-> n, type |-> call.resource,
                                           attributes |-> call.payload]]
      [] call.op = "delete_resource" ->
            /\ req.method = "DELETE"
            /\ \E n \in 0..MaxId :
                  /\ Denotes(call.id, n)
                  /\ req.url = call.resource \o <<"/">> \o str(n)
            /\ req.json = None

\* C14: a create, an update, an upsert and a delete each make exactly one call on
\* the transport: POST resource, PATCH resource/id, PATCH resource/push and
\* DELETE resource/id, with the body {data: {[id,] type, attributes}}, and no body
\* for the delete
C14_WritesShaped ==
    Wrote =>
        /\ Len(requests) <= 1
        /\ WellFormed => Len(requests) = 1
        /\ requests # <<>> => Shaped(requests[1])

\* an update of record 7 sent with its id in the body
C14_UpdateSent ==
    /\ call.op = "patch_resource"
    /\ call.id = Str(<<"0", "7">>)
    /\ Len(requests) = 1
    /\ requests[1].method = "PATCH"
    /\ requests[1].json.data.id = 7
    /\ pc = "returned"

\* C15: a create, an update or an upsert whose attributes are not a mapping raises
\* ValueError and makes no call on the transport
C15_NonMappingRejected ==
    (call.op \in {"post_resource", "patch_resource", "upsert_resource"}
        /\ call.payload.type # "dict") =>
        /\ pc = "raised"
        /\ ret.error = "ValueError"
        /\ requests = <<>>

\* an update with a list for attributes and a good id refused
C15_ListRefused ==
    /\ call.op = "patch_resource"
    /\ call.payload.type = "list"
    /\ call.id = Num(1)
    /\ pc = "raised"
    /\ requests = <<>>

\* ------------------------------------------- claims about the result count

\* C16: with count = True the request of list_resource carries stats[total] =
\* count whatever the shape of the params passed in, and with count = False the
\* client adds no such pair
C16_CountPairSent ==
    ListRequested =>
        IF call.count
        THEN HasKey(SentParams, STATS_TOTAL) /\ Get(SentParams, STATS_TOTAL) = Str(COUNT)
        ELSE ~HasKey(SentParams, STATS_TOTAL)

\* the same for params that are None, empty, or a mapping
C16_MappingParamsCounted ==
    (ListRequested /\ (Falsy(call.params) \/ IsDict(call.params))) =>
        IF call.count
        THEN HasKey(SentParams, STATS_TOTAL) /\ Get(SentParams, STATS_TOTAL) = Str(COUNT)
        ELSE ~HasKey(SentParams, STATS_TOTAL)

\* ------------------------------------------- absolute and relative links

\* scheme and host of an absolute link
Origin == <<"h", ":", "/", "/", "x">>

\* one call of _urlparse on a link to the API, relative (/api/v2/...) or absolute
\* (scheme://host/api/v2/...)
CallUrlparseLink ==
    /\ pc = "idle"
    /\ \E n \in 0..MaxUrlLen, params_as_dict \in BOOLEAN :
       \E body \in UrlBodies(n), origin \in {<<>>, Origin} :
          /\ call' = [op |-> "_urlparse", url |-> origin \o ApiPrefix \o body,
                      params_as_dict |-> params_as_dict, origin |-> origin, body |-> body]
          /\ ret' = _urlparse(Str(call'.url), params_as_dict)
          /\ pc' = IF ret'.raised THEN "raised" ELSE "returned"
    /\ UNCHANGED <<server, requests, resp, data, limit, frames>>

NextLinks == CallUrlparseLink

SpecLinks == InitIdle /\ [][NextLinks]_vars

LinkParsed == call.op = "_urlparse" /\ pc \in {"returned", "raised"}

\* the outcome is that of the call on the given link
SameOutcome(out, other) ==
    /\ out.raised = other.raised
    /\ ~out.raised => out.value = other.value

\* C17: an absolute link gives the same (path, params) as the relative link of
\* the same path and query, and the API prefix is stripped from the path returned
\* in both forms
C17_AbsoluteLikeRelative ==
    LinkParsed =>
        /\ SameOutcome(ret, _urlparse(Str(ApiPrefix \o call.body), call.params_as_dict))
        /\ ~ret.raised => ~StartsWith(ret.value[1], ApiPrefix)

\* a relative link gives what the link without the prefix gives
C17_RelativePrefixStripped ==
    (LinkParsed /\ call.origin = <<>>) =>
        SameOutcome(ret, _urlparse(Str(call.body), call.params_as_dict))

\* ------------------------------------------- NationBuilderV1.upsert_person

\* upsert_person, lines 184-195
_required_keys ==
    <<"civicrm_id", "county_file_id", "dw_id", "external_id", "email",
      "facebook_username", "ngp_id", "salesforce_id", "twitter_login", "van_id">>

\* the persons a caller passes: not a dict, a dict without a matching key, a dict
\* with one
Persons ==
    Payloads
        \cup {Dict(<<<<_required_keys[k], Str(NAME)>>>>) : k \in 1..Len(_required_keys)}
        \cup {Dict(<<<<"name", Str(NAME)>>, <<_required_keys[k], Num(7)>>>>) :
                 k \in 1..Len(_required_keys)}

\* the statuses the API answers with
Statuses == {200, 201, 204, 400, 404, 500}

\* self.client.request(url, "PUT", data=...): the Response of any status, with or
\* without a JSON body, or the error of a request that could not be made
put_person(person) ==
    {Return([status_code |-> s, has_json |-> j, json |-> Dict(<<<<"person", person>>>>)]) :
        s \in Statuses, j \in BOOLEAN}
        \cup {Raise("ConnectionError")}

\* self.client.validate_response(response): raises on an error status
validate_response(response) ==
    IF response.status_code >= 400 THEN Raise("HTTPError") ELSE Return(None)

\* self.client.json_check(response)
json_check(response) == response.has_json

\* upsert_person, lines 209-219, with the response of the request
Answered(response) ==
    IF validate_response(response).raised
    THEN Finish(validate_response(response))
    ELSE IF response.status_code = 200 /\ json_check(response)
    THEN Finish(Return(<<FALSE, response.json>>))
    ELSE IF response.status_code = 201 /\ json_check(response)
    THEN Finish(Return(<<TRUE, response.json>>))
    ELSE Finish(Return(<<FALSE, None>>))

\* upsert_person, lines 206-219
PutPerson(person) ==
    \E out \in put_person(person) :
        /\ requests' = Append(requests,
              Request("upsert_person", "PUT", <<"p", "e", "o", "p", "l", "e", "/">> \o PUSH,
                      None, [person |-> person], out))
        /\ resp' = out
        /\ IF out.raised THEN Finish(out) ELSE Answered(out.value)

\* NationBuilderV1.upsert_person(person), lines 197-219
upsert_person ==
    /\ pc = "idle"
    /\ \E person \in Persons :
          /\ call' = [op |-> "upsert_person", person |-> person]
          /\ IF ~IsDict(person)
             THEN Finish(Raise("ValueError")) /\ UNCHANGED <<requests, resp>>
             ELSE IF ~(\E k \in 1..Len(_required_keys) : HasKey(person.v, _required_keys[k]))
             THEN Finish(Raise("ValueError")) /\ UNCHANGED <<requests, resp>>
             ELSE PutPerson(person)
    /\ UNCHANGED <<server, data, limit>>

NextV1 == upsert_person

SpecV1 == InitIdle /\ [][NextV1]_vars

Upserted == call.op = "upsert_person"

\* the person is a dict with none of the matching keys
Unmatchable ==
    /\ call.person.type = "dict"
    /\ \A k \in 1..Len(_required_keys) : ~HasKey(call.person.v, _required_keys[k])

\* the request was made and did not succeed
RequestFailed == requests # <<>> /\ (resp.raised \/ resp.value.status_code >= 400)

\* the server answered the given status with a JSON body
AnsweredJson(status) ==
    /\ requests # <<>>
    /\ ~resp.raised
    /\ resp.value.status_code = status
    /\ resp.value.has_json

\* the call returned (created, the body of the answer)
ReturnedBody(created) ==
    /\ pc = "returned"
    /\ ret.value[1] = created
    /\ ret.value[2] = resp.value.json

\* C18: upsert_person returns (True, body) exactly when the server answered 201
\* with a JSON body and (False, body) when it answered 200; it returns
\* (False, None), and does not raise, when the request fails; a person without any
\* matching key raises ValueError before a request is sent
C18_UpsertPersonOutcome ==
    Upserted =>
        /\ AnsweredJson(201) => ReturnedBody(TRUE)
        /\ AnsweredJson(200) => ReturnedBody(FALSE)
        /\ (pc = "returned" /\ ret.value[1]) => AnsweredJson(201)
        /\ RequestFailed => (pc = "returned" /\ ret.value[1] = FALSE /\ ret.value[2] = None)
        /\ Unmatchable => (pc = "raised" /\ ret.error = "ValueError" /\ requests = <<>>)

\* the same without the failed requests
C18_AnswersReported ==
    Upserted =>
        /\ AnsweredJson(201) => ReturnedBody(TRUE)
        /\ AnsweredJson(200) => ReturnedBody(FALSE)
        /\ (pc = "returned" /\ ret.value[1]) => AnsweredJson(201)
        /\ Unmatchable => (pc = "raised" /\ ret.error = "ValueError" /\ requests = <<>>)

\* a request that fails makes the call raise
C18_FailureRaises == (Upserted /\ RequestFailed) => pc = "raised"

\* ------------------------------------------- claims about the cursor chain

\* a pair of a query, as text
PairText(p) == IF Len(p) = 2 THEN p[1] \o <<"=">> \o p[2] ELSE p[1]

RECURSIVE QueryText(_)
QueryText(ps) ==
    IF ps = <<>> THEN <<>>
    ELSE IF Len(ps) = 1 THEN PairText(ps[1])
    ELSE PairText(ps[1]) \o <<"&">> \o QueryText(Tail(ps))

\* the link a request is addressed to
LinkOf(req) ==
    ApiPrefix \o req.url \o
        (IF req.params.v = <<>> THEN <<>> ELSE <<"?">> \o QueryText(req.params.v))

\* the page the API returned to a request it answered
PageReturned(req) == Route(req.url, req.params).value

ListingAll == call.op = "list_resource" /\ call.all_results

\* C19: the fetches of _get_all follow one another: each is made after the one
\* before it was answered, and is addressed by the links.next of the page that
\* answer returned (the first one by that of the first page), so that no link is
\* requested twice or skipped; the response held is that of the last fetch
C19_FetchesFollowTheChain ==
    ListingAll =>
        /\ \A k \in 2..Len(requests) :
              /\ requests[k - 1].ok
              /\ HasNext(PageReturned(requests[k - 1]))
              /\ PageReturned(requests[k - 1]).links.next = Str(LinkOf(requests[k]))
        /\ pc = "get_all" => resp = PageReturned(LastRequest)

\* three pages fetched, the second and the third by the links of the first and
\* the second
C19_ChainOfThree ==
    /\ ListingAll
    /\ pc = "returned"
    /\ Len(requests) = 3
    /\ Len(server.pages) = 3
    /\ LinkOf(requests[2]) = LinkTo(2).v
    /\ LinkOf(requests[3]) = LinkTo(3).v

\* ------------------------------------------- claims about termination

\* a turn of the loop of _get_all can be taken: get_all_step is enabled exactly
\* then, and taking it changes the state (it returns, raises or adds a request)
LoopOn == pc = "get_all" /\ FollowUps < MaxFetches

\* weak fairness of get_all_step, WF_vars(get_all_step), with its enabling
\* condition written out: the interpreter goes on running the loop it is in (lines
\* 357-362 are straight-line code of one thread)
LoopRuns == []<>(~LoopOn) \/ []<><<get_all_step>>_vars

SpecFair == Spec /\ LoopRuns

\* the response held has no next link, or the limit is reached
Stop == ~HasNext(resp) \/ (limit > 0 /\ Len(data) >= limit)

\* a server every page of which carries a next link that can be followed
AlwaysNext ==
    \A i \in 1..Len(server.pages) :
        HasNext(server.pages[i]) /\ ~Unparseable(server.pages[i].links.next)

EveryPageHasRecords == \A i \in 1..Len(server.pages) : Len(server.pages[i].data) >= 1

\* the follow-up fetches a call with a limit may need
FetchBudget == Max(0, call.limit - Len(server.pages[1].data))

Ended == pc \in {"returned", "raised"}

\* what holds of every state of a list call for all results
LoopEndsOnServerOrLimit ==
    ListingAll =>
        /\ pc = "returned" => Stop
        /\ (AlwaysNext /\ call.limit <= 0) => pc # "returned"
        /\ (call.limit > 0 /\ EveryPageHasRecords) => FollowUps <= FetchBudget

\* a turn of the loop returns exactly when the loop is to stop
TurnReturnsOnStop == pc = "get_all" => (pc' = "returned" <=> Stop)

\* C20: _get_all ends exactly when a response has no next link or, with limit > 0,
\* the records held reach limit; nothing else caps it, so with limit <= 0 it never
\* returns from a server that always gives a next link; with limit > 0 and at
\* least one record a page it ends after at most limit - len(first page) follow-up
\* fetches
C20_TerminationByServerOrLimit ==
    /\ [] LoopEndsOnServerOrLimit
    /\ [][TurnReturnsOnStop]_vars
    /\ (pc = "get_all" /\ call.limit > 0 /\ EveryPageHasRecords) ~> Ended

\* a call with limit 4 on a server that always gives a next link, ended after the
\* 3 follow-up fetches its first page of 1 record left it
C20_EndedByLimit ==
    /\ ListingAll
    /\ pc = "returned"
    /\ AlwaysNext
    /\ call.limit = 4
    /\ Len(server.pages[1].data) = 1
    /\ FollowUps = 3
    /\ Len(data) >= 4


\* ------------------------------------------- claims about the last page

\* the response held carries "links" with a "next" that is null
NullNext(r) == r # None /\ HasNext(r) /\ r.links.next = None

\* the response held has no "links", or "links" without "next"
AbsentNext(r) == r # None /\ ~HasNext(r)

\* the list call for all results is over, one way or the other
ListedAll == call.op = "list_resource" /\ call.all_results /\ Ended

\* C21: a page whose links.next is null is the last page: the list call returns
\* the Table of the records held and does not raise, as it does when "next" or
\* "links" is absent
C21_NullNextIsLastPage ==
    (ListedAll /\ (NullNext(resp) \/ AbsentNext(resp))) =>
        /\ pc = "returned"
        /\ ret = Return(_to_table(data))

\* a page without "next" or without "links" ends the call with the records held
C21_AbsentNextIsLastPage ==
    (ListedAll /\ AbsentNext(resp)) =>
        /\ pc = "returned"
        /\ ret = Return(_to_table(data))

\* a call ended on a second page that has no "links"
C21_EndedWithoutLinks ==
    /\ ListedAll /\ AbsentNext(resp)
    /\ "links" \notin DOMAIN resp
    /\ FollowUps = 1

\* ------------------------------------------- the caller's own arguments

\* the params object of the caller after lines 403-412 ran on it: `params = {}`
\* (line 404) and `params = list(params.items())` (line 409) bind the local name to
\* a new object, `params[...] = ...` (lines 406, 408) writes into the dict passed
\* in, and `params += ...` (line 412) extends in place the list passed in
ParamsAfter(params, page_size, count, filters) ==
    IF Falsy(params) THEN params
    ELSE IF IsDict(params)
    THEN Dict(IF count
              THEN DictSet(DictSet(params.v, PAGE_SIZE, Num(ClampPageSize(page_size))),
                           STATS_TOTAL, Str(COUNT))
              ELSE DictSet(params.v, PAGE_SIZE, Num(ClampPageSize(page_size))))
    ELSE IF Falsy(filters) THEN params
    ELSE List(params.v \o _param_builder(FILTER, filters))

\* a list call on the objects the caller holds: args.params and args.filters are
\* what they hold when the call is made, held what they hold after it, fresh what
\* the caller put in them, nth the number of the call
OwnedArgs(args, fresh, nth) ==
    args @@ [held |-> [params |-> ParamsAfter(args.params, args.page_size,
                                              args.count, args.filters),
                       filters |-> args.filters],
             fresh |-> fresh,
             nth |-> nth]

ReusePageSizes == {50, 101}

\* a caller lists the people with params and filters of its own
list_resource_owned ==
    /\ pc = "idle"
    /\ \E params \in ParamShapes, filters \in FilterShapes, page_size \in ReusePageSizes,
          all_results \in BOOLEAN, count \in BOOLEAN :
          /\ call' = OwnedArgs(ListArgs(params, filters, all_results, page_size, 0,
                                        FALSE, count),
                               [params |-> params, filters |-> filters], 1)
          /\ ListResource(call')
    /\ UNCHANGED server

\* the caller lists the people again, passing the same two objects
list_resource_again ==
    /\ pc \in {"returned", "raised"}
    /\ call.nth = 1
    /\ \E page_size \in ReusePageSizes, all_results \in BOOLEAN, count \in BOOLEAN :
          /\ call' = OwnedArgs(ListArgs(call.held.params, call.held.filters, all_results,
                                        page_size, 0, FALSE, count),
                               call.fresh, 2)
          /\ ListResource(call')
    /\ UNCHANGED server

NextReuse == list_resource_owned \/ list_resource_again \/ get_all_step

SpecReuse == InitList /\ [][NextReuse]_vars

\* the request made by list_resource itself in the call in progress
OwnRequest ==
    requests[CHOOSE i \in 1..Len(requests) :
                /\ requests[i].by = "list_resource"
                /\ \A j \in (i + 1)..Len(requests) : requests[j].by # "list_resource"]

\* C22: a list call leaves the params and the filters objects of its caller as
\* they were, whether it returns or raises, so that a second call passing the same
\* objects sends what a call with a fresh copy of them would send
C22_ArgumentsNotMutated ==
    call.op = "list_resource" =>
        /\ call.held = call.fresh
        /\ OwnRequest.params =
              List(ListParams(call.fresh.params, call.page_size, call.count,
                              call.fresh.filters))

\* params that are None or empty, and the filters, are left as they were
C22_EmptyParamsAndFiltersKept ==
    call.op = "list_resource" =>
        /\ call.held.filters = call.fresh.filters
        /\ Falsy(call.fresh.params) =>
              /\ call.held.params = call.fresh.params
              /\ OwnRequest.params =
                    List(ListParams(call.fresh.params, call.page_size, call.count,
                                    call.fresh.filters))

\* a second call, with filters, over an empty list of params, returned
C22_SecondCallReturned ==
    /\ call.op = "list_resource" /\ call.nth = 2 /\ pc = "returned"
    /\ call.fresh.params = List(<<>>)
    /\ ~Falsy(call.fresh.filters)

\* ------------------------------------------- claims about what sideloading leaves

\* a show call with a selector that names relationships has returned its record
ShownSideloaded ==
    Showing /\ pc = "returned" /\ call.sideload.type \in {"str", "list"}

\* C23: in the record show_resource returns for a named selector, every
\* relationship the selector does not name keeps the entry of the server's
\* response, and with a selector that names none of them the relationships map
\* is the one of the response
C23_UnselectedKept ==
    ShownSideloaded =>
        /\ \A k \in 1..Len(Relationships) :
              Relationships[k][1] \notin Matching =>
                 /\ HasKey(ret.value.relationships, Relationships[k][1])
                 /\ Get(ret.value.relationships, Relationships[k][1]) = Relationships[k][2]
        /\ Matching = {} => ret.value.relationships = Relationships

\* the fields of the record other than "relationships" are those of the response
C23_OtherFieldsKept ==
    ShownSideloaded =>
        /\ DOMAIN ret.value = DOMAIN server.objects[ShownUrl].data
        /\ \A f \in DOMAIN ret.value \ {"relationships"} :
              ret.value[f] = server.objects[ShownUrl].data[f]

\* a record of two relationships returned for a selector that names one of them
C23_OneOfTwoSelected ==
    /\ ShownSideloaded
    /\ Len(Relationships) = 2
    /\ Cardinality(Matching) = 1

\* --------------------------------------------------- NationBuilderV1.get_people

NONCE == <<"_", "_", "n", "o", "n", "c", "e">>

TOKEN == <<"_", "_", "t", "o", "k", "e", "n">>

\* urllib.parse.parse_qsl(qs) for a query without '%' and '+': the (name, value)
\* pairs of the pieces between '&'; a piece without '=' or with a blank value is
\* left out (keep_blank_values and strict_parsing are False)
RECURSIVE parse_qsl(_)
parse_qsl(pieces) ==
    IF pieces = <<>> THEN <<>>
    ELSE IF Len(split1(pieces[1], "=")) = 2 /\ split1(pieces[1], "=")[2] # <<>>
    THEN <<split1(pieces[1], "=")>> \o parse_qsl(Tail(pieces))
    ELSE parse_qsl(Tail(pieces))

\* the values of name among the pairs, in order
ValuesOf(pairs, name) ==
    SelectSeq(pairs, LAMBDA p : p[1] = name)

\* urllib.parse.parse_qs(qs): name -> list of values; what is read of it here is
\* whether a name is in it, and its first value
parse_qs(qs) ==
    [has |-> [name \in {NONCE, TOKEN} |-> ValuesOf(parse_qsl(split(qs, "&")), name) # <<>>],
     first |-> [name \in {NONCE, TOKEN} |->
                   IF ValuesOf(parse_qsl(split(qs, "&")), name) # <<>>
                   THEN ValuesOf(parse_qsl(split(qs, "&")), name)[1][2]
                   ELSE <<>>]]

\* lines 69-78, with the parsed query
NonceAndToken(next_params) ==
    IF ~next_params.has[NONCE] THEN Raise("ValueError")
    ELSE IF ~next_params.has[TOKEN] THEN Raise("ValueError")
    ELSE Return(<<next_params.first[NONCE], next_params.first[TOKEN]>>)

\* NationBuilderV1.parse_next_params(next_value), lines 66-78
parse_next_params(next_value) == NonceAndToken(parse_qs(urlparse(next_value).query))

\* NationBuilderV1.make_next_url(original_url, nonce, token), line 82
make_next_url(original_url, nonce, token) ==
    original_url \o <<"?", "l", "i", "m", "i", "t", "=", "1", "0", "0", "&">>
                 \o NONCE \o <<"=">> \o nonce \o <<"&">> \o TOKEN \o <<"=">> \o token

\* line 90: original_url = "people"
ORIGINAL_URL == <<"p", "e", "o", "p", "l", "e">>

\* the nonce and the token the API gives out for page i
NonceOf(i) == <<"n", Digit[i + 1]>>

TokenOf(i) == <<"t", Digit[i + 1]>>

\* the "next" value a response gives for page i: a path and a query that carries
\* __nonce and __token, or lacks one of them
NextValue(kind, i) ==
    <<"/", "p", "?">> \o
    (IF kind = "nononce" THEN <<>> ELSE NONCE \o <<"=">> \o NonceOf(i) \o <<"&">>) \o
    (IF kind = "notoken" THEN <<"l", "=", "1">>
     ELSE TOKEN \o <<"=">> \o TokenOf(i))

\* the response of the API for page i: {"results": [...], "next": ...}, with or
\* without either key
PeoplePage(i, size, kind) ==
    CASE kind = "noresults" -> [next |-> None]
      [] kind = "nonext"    -> [results |-> List(PageData(i, size))]
      [] kind = "null"      -> [results |-> List(PageData(i, size)), next |-> None]
      [] OTHER              -> [results |-> List(PageData(i, size)),
                                next |-> Str(NextValue(kind, i + 1))]

\* the url get_people asks page i at
PeopleUrl(i) ==
    IF i = 1 THEN ORIGINAL_URL ELSE make_next_url(ORIGINAL_URL, NonceOf(i), TokenOf(i))

\* what the API answers at url
PeopleRoute(url) ==
    IF \E i \in 1..Len(server.pages) : PeopleUrl(i) = url
    THEN Return(server.pages[CHOOSE i \in 1..Len(server.pages) : PeopleUrl(i) = url])
    ELSE Raise("HTTPError")

\* response.get(key, None)
get(response, key) == IF key \in DOMAIN response THEN response[key] ELSE None

\* lines 108-112 with the records of the response appended: the next url is made,
\* the loop is left, or parse_next_params raises and the except clause of line
\* 113 goes round the loop with the url it had
AfterExtend(response, parsed) ==
    IF Falsy(get(response, "next"))
    THEN /\ pc' = "returned"
         /\ ret' = Return(Table(data'))
         /\ UNCHANGED frames
    ELSE IF parsed.raised
    THEN UNCHANGED <<pc, ret, frames>>
    ELSE /\ frames' = [frames EXCEPT !.url =
                          make_next_url(ORIGINAL_URL, parsed.value[1], parsed.value[2])]
         /\ UNCHANGED <<pc, ret>>

\* one turn of the loop of lines 94-118 with the outcome of its request
PeopleTurn(out) ==
    /\ requests' = Append(requests, Request("get_people", "GET", frames.url, None, None, out))
    /\ resp' = out
    /\ IF out.raised
       THEN UNCHANGED <<pc, ret, data, frames>>
       ELSE IF get(out.value, "results") = None
       THEN /\ pc' = "returned"
            /\ ret' = Return(Table(data))
            /\ UNCHANGED <<data, frames>>
       ELSE /\ data' = data \o out.value.results.v
            /\ AfterExtend(out.value,
                           IF Falsy(get(out.value, "next")) THEN None
                           ELSE parse_next_params(out.value.next.v))
    /\ UNCHANGED <<call, server, limit>>

MaxPeoplePages == 3

MaxPeopleFetches == 5

MaxFailures == 2

Fetches == Cardinality({i \in 1..Len(requests) : requests[i].ok})

Failures == Cardinality({i \in 1..Len(requests) : ~requests[i].ok})

\* lines 89-92: a caller asks for all the people
get_people ==
    /\ pc = "idle"
    /\ call' = [op |-> "get_people"]
    /\ data' = <<>>
    /\ frames' = [active |-> FALSE, url |-> ORIGINAL_URL]
    /\ pc' = "people"
    /\ UNCHANGED <<ret, server, requests, resp, limit>>

\* a turn of the loop in which the request is answered
people_fetched ==
    /\ pc = "people"
    /\ Fetches < MaxPeopleFetches
    /\ \E out \in {PeopleRoute(frames.url)} : PeopleTurn(out)

\* a turn of the loop in which the request fails: lines 113-118, then the same
\* request again
people_failed ==
    /\ pc = "people"
    /\ Failures < MaxFailures
    /\ PeopleTurn(Raise("ConnectionError"))

InnerPeopleKinds == {"next", "nononce", "notoken"}

LastPeopleKinds == {"nonext", "null", "noresults"}

PeopleChain(n, size, kind) == [i \in 1..n |-> PeoplePage(i, size[i], kind[i])]

InitPeople ==
    /\ pc = "idle"
    /\ call = NoCall
    /\ ret = None
    /\ \E n \in 1..MaxPeoplePages :
       \E size \in [1..n -> 1..MaxPageLen] :
       \E kind \in [1..n -> InnerPeopleKinds \cup LastPeopleKinds] :
          /\ kind[n] \in LastPeopleKinds
          /\ \A i \in 1..(n - 1) : kind[i] \in InnerPeopleKinds \cup {"noresults"}
          /\ server = [pages |-> PeopleChain(n, size, kind), objects |-> EmptyRec]
    /\ requests = <<>>
    /\ resp = None
    /\ data = <<>>
    /\ limit = 0
    /\ frames = NoFrames

NextPeople == get_people \/ people_fetched \/ people_failed

SpecPeople == InitPeople /\ [][NextPeople]_vars

\* ------------------------------------------- claims about get_people

PeopleCall == call.op = "get_people"

\* the results of pages 1..k of the chain, in page order
RECURSIVE ResultsUpTo(_)
ResultsUpTo(k) ==
    IF k = 0 THEN <<>>
    ELSE ResultsUpTo(k - 1) \o
         (IF "results" \in DOMAIN server.pages[k] THEN server.pages[k].results.v ELSE <<>>)

\* the "next" value of page i cannot be parsed: it lacks __nonce or __token
BadNext(i) ==
    /\ ~Falsy(get(server.pages[i], "next"))
    /\ parse_next_params(server.pages[i].next.v).raised

\* every "next" value of the chain can be parsed
WellFormedChain == \A i \in 1..Len(server.pages) : ~BadNext(i)

\* C24: the data get_people holds and returns are the results of the pages read
\* so far, each page once and in page order, whatever requests failed and
\* whatever next value could not be parsed on the way
C24_EachPageOnce ==
    PeopleCall => \E k \in 0..Len(server.pages) : data = ResultsUpTo(k)

\* the same when only requests fail: a request that failed appended nothing, and
\* the retry appends the page once
C24_FailedRequestsDoNotDuplicate ==
    (PeopleCall /\ WellFormedChain) => \E k \in 0..Len(server.pages) : data = ResultsUpTo(k)

\* three pages returned after two requests failed
C24_ReturnedAfterFailures ==
    /\ PeopleCall /\ WellFormedChain /\ pc = "returned"
    /\ Failures = 2
    /\ Len(server.pages) = 3
    /\ data = ResultsUpTo(3)
    /\ Len(data) >= 3

\* ------------------------------------------- claims about the end of get_people

\* a turn of the loop can be taken with its request answered: people_fetched is
\* enabled exactly then, and taking it changes the state (it adds a request)
PeopleOn == pc = "people" /\ Fetches < MaxPeopleFetches

\* every request is answered in the end, a failure being followed by the same
\* request (lines 113-118) and the transport not failing for ever: weak fairness
\* of people_fetched, WF_vars(people_fetched), with its enabling condition
\* written out
RequestsAnswered == []<>(~PeopleOn) \/ []<><<people_fetched>>_vars

SpecPeopleFair == SpecPeople /\ RequestsAnswered

\* page i ends the chain for get_people: it has no "results", or no "next" value
StopsAt(i) ==
    \/ "results" \notin DOMAIN server.pages[i]
    \/ Falsy(get(server.pages[i], "next"))

\* the first page that ends the chain (the last page always does)
FirstStop == CHOOSE i \in 1..Len(server.pages) : StopsAt(i) /\ \A j \in 1..(i - 1) : ~StopsAt(j)

\* what get_people has returned: the Table of the results of all the pages up to
\* the first one that ends the chain, the last response being that page
ReturnedAllPages ==
    (PeopleCall /\ pc = "returned") =>
        /\ ret = Return(Table(ResultsUpTo(FirstStop)))
        /\ resp.value = server.pages[FirstStop]

\* a turn whose request is answered takes the loop on: it returns, or it goes to
\* another url
AnsweredTurnGoesOn ==
    (pc = "people" /\ Fetches' = Fetches + 1) =>
        (pc' = "returned" \/ frames'.url # frames.url)

\* C25: get_people returns in the end when every request is answered in the end:
\* each answered request takes the loop to the next page or out of it, the call
\* returns the Table of the results of all the pages, at the first response
\* without "results" or without a "next" value and never before
C25_EventuallyReturnsAll ==
    /\ [] ReturnedAllPages
    /\ [][AnsweredTurnGoesOn]_vars
    /\ (pc = "people") ~> (pc = "returned")

\* the same for a chain whose "next" values all carry __nonce and __token
C25_WellFormedChainReturns ==
    /\ [] ReturnedAllPages
    /\ [][WellFormedChain => AnsweredTurnGoesOn]_vars
    /\ (pc = "people" /\ WellFormedChain) ~> (pc = "returned")

\* three pages returned, the first request having failed twice
C25_ReturnedThreePages ==
    /\ PeopleCall /\ pc = "returned"
    /\ Len(server.pages) = 3
    /\ FirstStop = 3
    /\ Failures = 2
    /\ ~requests[1].ok /\ ~requests[2].ok
    /\ Fetches = 3
====
